---- MODULE Spec2Model ----
(***************************************************************************)
(* Model of ComStmtPrepareResp::deserialize                                *)
(* (src/mariadb/protocol/packets/binary/com_stmt_prepare_resp.rs).         *)
(*                                                                         *)
(* The wire stream is a fixed sequence of packets.  A packet is a record   *)
(* [kind, params, columns, body]: kind is what the payload is ("ok" a      *)
(* prepare-ok, "coldef" a column definition, "eof" an EOF packet, "trunc"  *)
(* a payload cut short), params/columns are the counts of a prepare-ok,    *)
(* body identifies the payload (its index on the wire).                    *)
(*                                                                         *)
(* deserialize decodes the packet held in buf on entry (the first packet   *)
(* of the stream) and then calls next_packet for the others: pos is the    *)
(* number of packets of the stream taken so far, the first one included.   *)
(***************************************************************************)
EXTENDS Integers, Sequences, FiniteSets, TLC

\* ------------------------------------------------------------------ bounds
MaxCount == 2
MaxTail == 6

\* ------------------------------------------------------------ capabilities
CLIENT_PROTOCOL_41 == "CLIENT_PROTOCOL_41"
CLIENT_DEPRECATE_EOF == "CLIENT_DEPRECATE_EOF"

CapabilitySets == {{CLIENT_PROTOCOL_41}, {CLIENT_PROTOCOL_41, CLIENT_DEPRECATE_EOF}}

contains(caps, flag) == flag \in caps

\* ----------------------------------------------------------------- packets
Packet(k, p, c, b) == [kind |-> k, params |-> p, columns |-> c, body |-> b]

NoPacket == Packet("none", 0, 0, 0)

TailKinds == {"coldef", "eof", "trunc"}

FirstPackets ==
    {Packet("ok", p, c, 1) : p \in 0..MaxCount, c \in 0..MaxCount}
        \cup {Packet("trunc", 0, 0, 1)}

Tails == UNION {[1..n -> TailKinds] : n \in 0..MaxTail}

MkStream(first, kinds) ==
    [i \in 1..(1 + Len(kinds)) |->
        IF i = 1 THEN first ELSE Packet(kinds[i - 1], 0, 0, i)]

Streams == {MkStream(f, t) : f \in FirstPackets, t \in Tails}

\* ----------------------------------------------------------------- results
Ok(v) == [tag |-> "Ok", err |-> "none", value |-> v]
Err(e, dflt) == [tag |-> "Err", err |-> e, value |-> dflt]

\* the `?` operator: does the result make the function return early
IsErrSwallowed(r) == FALSE
IsErr(r) == r.tag = "Err"

None == [some |-> FALSE, v |-> <<>>]
Some(x) == [some |-> TRUE, v |-> x]

\* --------------------------------------------------------- message decoders
DefaultOk == [params |-> 0, columns |-> 0]

ComStmtPrepareOk_decode(packet, caps) ==
    CASE packet.kind = "ok" -> Ok([params |-> packet.params, columns |-> packet.columns])
      [] packet.kind = "trunc" -> Err("Truncated", DefaultOk)
      [] OTHER -> Err("UnexpectedHeader", DefaultOk)

ColumnDefPacket_decode(packet, caps) ==
    IF packet.kind = "coldef"
    THEN Ok([column |-> packet.body])
    ELSE Err("Truncated", [column |-> 0])

EofPacket_decode(packet, caps) ==
    CASE packet.kind = "eof" -> Ok([eof |-> packet.body])
      [] packet.kind = "trunc" -> Err("Truncated", [eof |-> 0])
      [] OTHER -> Err("UnexpectedHeader", [eof |-> 0])

\* ------------------------------------------------------------ packet framer
\* returns the next packet of the stream and the position after it
next_packet(s, p) ==
    IF p < Len(s)
    THEN Ok([packet |-> s[p + 1], pos |-> p + 1])
    ELSE Err("ConnectionClosed", [packet |-> NoPacket, pos |-> p])

\* ---------------------------------------------------- deserialize's branches
HasParamsAlways(o) == o.params >= 0
HasParams(o) == o.params > 0

HasColumnsAlways(o) == o.columns >= 0
HasColumns(o) == o.columns > 0

ParamEofExpectedNever(ctxcaps, caps) == FALSE
ParamEofExpected(ctxcaps, caps) == ~contains(ctxcaps, CLIENT_DEPRECATE_EOF)

ResEofExpected(ctxcaps, caps) == ~contains(caps, CLIENT_DEPRECATE_EOF)

pushFront(vec, x) == <<x>> \o vec
push(vec, x) == Append(vec, x)

\* ------------------------------------------------------------------- state
VARIABLES stream, capabilities, ctx_capabilities, pos, buf, pc, ok,
          vec, i, param_defs, res_columns, ret, log

\* the test harness (sqlx-mysql/src/testing/mod.rs): the database server
\* (databases, rows of _sqlx_test.databases, schema = the table exists), the
\* static MASTER_POOL, the locals of each test task (t_*) and of the one
\* task running cleanup_test_dbs (c_*, delete_db_names, deleted_db_names)
VARIABLES databases, rows, schema, MASTER_POOL,
          t_pc, t_db, t_pool, t_master, t_conn, t_ret, t_alone, t_left,
          c_pc, delete_db_names, c_k, deleted_db_names, c_ret,
          c_ok, c_removed, c_alone, c_aborted, c_stmts

decoderVars == <<stream, capabilities, ctx_capabilities, pos, buf, pc, ok,
                 vec, i, param_defs, res_columns, ret, log>>

serverVars == <<databases, rows, schema>>

testVars == <<t_pc, t_db, t_pool, t_master, t_conn, t_ret, t_alone, t_left>>

cleanerVars == <<c_pc, delete_db_names, c_k, deleted_db_names, c_ret,
                 c_ok, c_removed, c_alone, c_aborted, c_stmts>>

harnessVars == <<serverVars, MASTER_POOL, testVars, cleanerVars>>

vars == <<decoderVars, harnessVars>>

\* ---------------------------------------------------- bounds of the harness
MaxTests == 2
MaxDbs == 2

Tests == 1..MaxTests
Dbs == 1..MaxDbs

\* DATABASE_URL as a call reads it: as it was, or changed at runtime
Urls == {"url", "changed"}

\* a pool: its identity and the connect options it was built with
NoPool == [id |-> 0, url |-> "none"]

\* what a call of a test task returned
Returned(call, tag) == [call |-> call, tag |-> tag]

\* a Result<Option<usize>, Error> of cleanup_test_dbs
CleanerResult(tag, e, some, n) == [tag |-> tag, err |-> e, some |-> some, n |-> n]

\* the harness before any call: an empty server, MASTER_POOL not set
HarnessStart ==
    /\ databases = {}
    /\ rows = {}
    /\ schema = FALSE
    /\ MASTER_POOL = NoPool
    /\ t_pc = [p \in Tests |-> "idle"]
    /\ t_db = [p \in Tests |-> 1]
    /\ t_pool = [p \in Tests |-> NoPool]
    /\ t_master = [p \in Tests |-> NoPool]
    /\ t_conn = [p \in Tests |-> 0]
    /\ t_ret = [p \in Tests |-> Returned("none", "None")]
    /\ t_alone = [p \in Tests |-> TRUE]
    /\ t_left = [p \in Tests |-> FALSE]
    /\ c_pc = "idle"
    /\ delete_db_names = <<>>
    /\ c_k = 1
    /\ deleted_db_names = <<>>
    /\ c_ret = CleanerResult("None", "none", FALSE, 0)
    /\ c_ok = {}
    /\ c_removed = {}
    /\ c_alone = TRUE
    /\ c_aborted = FALSE
    /\ c_stmts = 0

Pending == [tag |-> "Pending", err |-> "none", value |-> <<>>]

Event(op, group, r) == [op |-> op, group |-> group, at |-> pos, tag |-> r.tag, err |-> r.err]

Init ==
    /\ stream \in Streams
    /\ capabilities \in CapabilitySets
    /\ ctx_capabilities \in CapabilitySets
    /\ pos = 1
    /\ buf = stream[1]
    /\ pc = "decode_ok"
    /\ ok = DefaultOk
    /\ vec = <<>>
    /\ i = 0
    /\ param_defs = None
    /\ res_columns = None
    /\ ret = Pending
    /\ log = <<>>
    /\ HarnessStart

\* what deserialize never writes
Inputs == <<stream, capabilities, ctx_capabilities, harnessVars>>

\* line 16: let ok = ComStmtPrepareOk::decode(buf, capabilities)?;
DecodeOk ==
    /\ pc = "decode_ok"
    /\ LET r == ComStmtPrepareOk_decode(buf, capabilities) IN
        /\ log' = Append(log, Event("decode_ok", "ok", r))
        /\ IF IsErr(r)
           THEN ret' = Err(r.err, <<>>) /\ pc' = "done" /\ UNCHANGED ok
           ELSE ok' = r.value /\ pc' = "params" /\ UNCHANGED ret
    /\ UNCHANGED <<Inputs, pos, buf, vec, i, param_defs, res_columns>>

\* lines 18-19 and 37-39: if ok.params > 0 { Vec::new() ... } else { None }
ParamsBranch ==
    /\ pc = "params"
    /\ IF HasParams(ok)
       THEN vec' = <<>> /\ i' = 0 /\ pc' = "param_loop" /\ UNCHANGED param_defs
       ELSE param_defs' = None /\ pc' = "columns" /\ UNCHANGED <<vec, i>>
    /\ UNCHANGED <<Inputs, pos, buf, ok, res_columns, ret, log>>

\* the fetch of lines 22, 26, 45, 49: ctx.next_packet().await?
Fetch(group, op, next) ==
    LET r == next_packet(stream, pos) IN
        /\ log' = Append(log, Event(op, group, r))
        /\ IF IsErr(r)
           THEN ret' = Err(r.err, <<>>) /\ pc' = "done" /\ UNCHANGED <<pos, buf>>
           ELSE pos' = r.value.pos /\ buf' = r.value.packet /\ pc' = next
                /\ UNCHANGED ret

\* lines 21-22: for _ in 0..ok.params { ctx.next_packet().await?;
ParamNextPacket ==
    /\ pc = "param_loop"
    /\ i < ok.params
    /\ Fetch("param", "next_packet", "param_decode")
    /\ UNCHANGED <<Inputs, ok, vec, i, param_defs, res_columns>>

\* line 23: param_defs.push(ColumnDefPacket::decode(&buf, capabilities)?);
ParamDecode ==
    /\ pc = "param_decode"
    /\ LET r == ColumnDefPacket_decode(buf, capabilities) IN
        /\ log' = Append(log, Event("decode_coldef", "param", r))
        /\ IF IsErr(r)
           THEN ret' = Err(r.err, <<>>) /\ pc' = "done" /\ UNCHANGED <<vec, i>>
           ELSE vec' = push(vec, r.value) /\ i' = i + 1 /\ pc' = "param_loop"
                /\ UNCHANGED ret
    /\ UNCHANGED <<Inputs, pos, buf, ok, param_defs, res_columns>>

\* line 26: ctx.next_packet().await?;  (after the loop, whatever the flags)
ParamTerminator ==
    /\ pc = "param_loop"
    /\ i >= ok.params
    /\ Fetch("param", "next_terminator", "param_gate")
    /\ UNCHANGED <<Inputs, ok, vec, i, param_defs, res_columns>>

\* lines 28-36: if !ctx.ctx.capabilities.contains(CLIENT_DEPRECATE_EOF)
\*              { EofPacket::decode(buf, capabilities)?; }  Some(param_defs)
ParamEofGate ==
    /\ pc = "param_gate"
    /\ IF ParamEofExpected(ctx_capabilities, capabilities)
       THEN LET r == EofPacket_decode(buf, capabilities) IN
            /\ log' = Append(log, Event("decode_eof", "param", r))
            /\ IF IsErr(r)
               THEN ret' = Err(r.err, <<>>) /\ pc' = "done" /\ UNCHANGED param_defs
               ELSE param_defs' = Some(vec) /\ pc' = "columns" /\ UNCHANGED ret
       ELSE param_defs' = Some(vec) /\ pc' = "columns" /\ UNCHANGED <<ret, log>>
    /\ UNCHANGED <<Inputs, pos, buf, ok, vec, i, res_columns>>

\* lines 41-42 and 56-58: if ok.columns > 0 { Vec::new() ... } else { None }
ColumnsBranch ==
    /\ pc = "columns"
    /\ IF HasColumns(ok)
       THEN vec' = <<>> /\ i' = 0 /\ pc' = "res_loop" /\ UNCHANGED res_columns
       ELSE res_columns' = None /\ pc' = "return" /\ UNCHANGED <<vec, i>>
    /\ UNCHANGED <<Inputs, pos, buf, ok, param_defs, ret, log>>

\* lines 44-45: for _ in 0..ok.columns { ctx.next_packet().await?;
ResNextPacket ==
    /\ pc = "res_loop"
    /\ i < ok.columns
    /\ Fetch("res", "next_packet", "res_decode")
    /\ UNCHANGED <<Inputs, ok, vec, i, param_defs, res_columns>>

\* line 46: res_columns.push(ColumnDefPacket::decode(buf, capabilities)?);
ResDecode ==
    /\ pc = "res_decode"
    /\ LET r == ColumnDefPacket_decode(buf, capabilities) IN
        /\ log' = Append(log, Event("decode_coldef", "res", r))
        /\ IF IsErr(r)
           THEN ret' = Err(r.err, <<>>) /\ pc' = "done" /\ UNCHANGED <<vec, i>>
           ELSE vec' = push(vec, r.value) /\ i' = i + 1 /\ pc' = "res_loop"
                /\ UNCHANGED ret
    /\ UNCHANGED <<Inputs, pos, buf, ok, param_defs, res_columns>>

\* line 49: ctx.next_packet().await?;  (after the loop, whatever the flags)
ResTerminator ==
    /\ pc = "res_loop"
    /\ i >= ok.columns
    /\ Fetch("res", "next_terminator", "res_gate")
    /\ UNCHANGED <<Inputs, ok, vec, i, param_defs, res_columns>>

\* lines 51-55: if !capabilities.contains(CLIENT_DEPRECATE_EOF)
\*              { EofPacket::decode(&mut ctx)?; }  Some(res_columns)
ResEofGate ==
    /\ pc = "res_gate"
    /\ IF ResEofExpected(ctx_capabilities, capabilities)
       THEN LET r == EofPacket_decode(buf, capabilities) IN
            /\ log' = Append(log, Event("decode_eof", "res", r))
            /\ IF IsErr(r)
               THEN ret' = Err(r.err, <<>>) /\ pc' = "done" /\ UNCHANGED res_columns
               ELSE res_columns' = Some(vec) /\ pc' = "return" /\ UNCHANGED ret
       ELSE res_columns' = Some(vec) /\ pc' = "return" /\ UNCHANGED <<ret, log>>
    /\ UNCHANGED <<Inputs, pos, buf, ok, vec, i, param_defs>>

\* lines 60-64: Ok(ComStmtPrepareResp { ok, param_defs, res_columns })
Return ==
    /\ pc = "return"
    /\ ret' = Ok([ok |-> ok, param_defs |-> param_defs, res_columns |-> res_columns])
    /\ pc' = "done"
    /\ UNCHANGED <<Inputs, pos, buf, ok, vec, i, param_defs, res_columns, log>>

Next ==
    \/ DecodeOk
    \/ ParamsBranch
    \/ ParamNextPacket
    \/ ParamDecode
    \/ ParamTerminator
    \/ ParamEofGate
    \/ ColumnsBranch
    \/ ResNextPacket
    \/ ResDecode
    \/ ResTerminator
    \/ ResEofGate
    \/ Return

Spec == Init /\ [][Next]_vars

\* deserialize is one task that is polled until it returns and every
\* next_packet call returns: a step that can be taken is eventually taken
FairSpec == Init /\ [][Next]_vars /\ WF_vars(Next)

\* ======================================================= the test harness
\* the decoder takes no step while the harness runs
DecoderRest ==
    /\ stream = MkStream(Packet("ok", 0, 0, 1), <<>>)
    /\ capabilities = {CLIENT_PROTOCOL_41}
    /\ ctx_capabilities = {CLIENT_PROTOCOL_41}
    /\ pos = 1
    /\ buf = stream[1]
    /\ pc = "decode_ok"
    /\ ok = DefaultOk
    /\ vec = <<>>
    /\ i = 0
    /\ param_defs = None
    /\ res_columns = None
    /\ ret = Pending
    /\ log = <<>>

HarnessInit == DecoderRest /\ HarnessStart

\* ------------------------------------------------ the statements' outcomes
\* any statement can fail with an error that is not a database error
\* (Error::Io, a lost connection); what the server answers otherwise:
\* DROP DATABASE IF EXISTS succeeds or is refused (the database is in use)
DropOutcomes == {"ok", "Database", "Io"}

\* DELETE FROM _sqlx_test.databases needs the table
DeleteOutcomes == IF schema THEN {"ok", "Io"} ELSE {"Database", "Io"}

\* INSERT INTO _sqlx_test.databases needs the table and a new primary key
InsertOutcomes(n) == IF schema /\ n \notin rows THEN {"ok", "Io"} ELSE {"Database", "Io"}

\* CREATE DATABASE needs the database not to exist
CreateOutcomes(n) == IF n \notin databases THEN {"ok", "Io"} ELSE {"Database", "Io"}

\* SELECT db_name FROM _sqlx_test.databases needs the table
SelectOutcomes == IF schema THEN {"ok", "Io"} ELSE {"Database", "Io"}

\* acquire, connect, CREATE SCHEMA/TABLE IF NOT EXISTS
PlainOutcomes == {"ok", "Io"}

\* ----------------------------------------------------------- MASTER_POOL
\* OnceCell::try_insert: sets the cell only when it is empty
try_insertOverwrite(cell, pool) == [cell |-> pool, inserted |-> TRUE]
try_insert(cell, pool) ==
    IF cell = NoPool
    THEN [cell |-> pool, inserted |-> TRUE]
    ELSE [cell |-> cell, inserted |-> FALSE]

\* the pool a losing call goes on with (line 151: existing)
LoserPool(existing, pool) == existing

\* an identity no live pool has
FreshId(p) ==
    CHOOSE k \in 1..(MaxTests + 1) :
        /\ k # MASTER_POOL.id
        /\ \A q \in Tests \ {p} : k # t_pool[q].id
        /\ \A j \in 1..(k - 1) :
            j = MASTER_POOL.id \/ \E q \in Tests \ {p} : j = t_pool[q].id

\* ------------------------------------------------------------------ ghosts
\* t_alone[p]: no other call has written to p's db_name since p's call began
AloneAfter(writer, names) ==
    [p \in Tests |-> t_alone[p] /\ (p = writer \/ t_db[p] \notin names)]

\* c_alone: no other call has removed a selected row since the SELECT
CleanerAloneAfter(removed) ==
    /\ c_alone
    /\ c_pc \in {"drop", "delete"} =>
            \A k \in 1..Len(delete_db_names) : delete_db_names[k] \notin removed

\* a call of task p returns: its locals are dropped, what a successful
\* test_context provisioned stays known
TestReturns(p, call, tag, alone) ==
    LET keep == call = "test_context" /\ tag = "Ok" IN
    /\ t_ret' = [t_ret EXCEPT ![p] = Returned(call, tag)]
    /\ t_pc' = [t_pc EXCEPT ![p] = "idle"]
    /\ t_pool' = [t_pool EXCEPT ![p] = NoPool]
    /\ t_master' = [t_master EXCEPT ![p] = NoPool]
    /\ t_conn' = [t_conn EXCEPT ![p] = 0]
    /\ t_db' = [t_db EXCEPT ![p] = IF keep THEN t_db[p] ELSE 1]
    /\ t_left' = [t_left EXCEPT ![p] = keep /\ t_left[p]]
    /\ t_alone' = [alone EXCEPT ![p] = IF keep THEN alone[p] ELSE TRUE]

TestGoes(p, to, alone) ==
    /\ t_pc' = [t_pc EXCEPT ![p] = to]
    /\ t_alone' = alone
    /\ UNCHANGED <<t_ret, t_pool, t_master, t_conn, t_db, t_left>>

\* ------------------------------------------------------------ test_context
\* lines 122-133: the url is read, the pool is built
TcBuildPool(p) ==
    /\ t_pc[p] = "idle"
    /\ \E n \in Dbs, u \in Urls :
        /\ t_db' = [t_db EXCEPT ![p] = n]
        /\ t_pool' = [t_pool EXCEPT ![p] = [id |-> FreshId(p), url |-> u]]
        /\ t_left' = [t_left EXCEPT ![p] = n \in rows /\ n \in databases]
    /\ t_ret' = [t_ret EXCEPT ![p] = Returned("test_context", "Running")]
    /\ t_alone' = [t_alone EXCEPT ![p] = TRUE]
    /\ t_pc' = [t_pc EXCEPT ![p] = "tc_try_insert"]
    /\ UNCHANGED <<decoderVars, serverVars, MASTER_POOL, cleanerVars, t_master, t_conn>>

\* lines 135-155: let master_pool = match MASTER_POOL.try_insert(pool) {...};
\*                let mut conn = master_pool.acquire().await?;
TcTryInsert(p) ==
    /\ t_pc[p] = "tc_try_insert"
    /\ LET r == try_insert(MASTER_POOL, t_pool[p])
           master_pool == IF r.inserted THEN r.cell ELSE LoserPool(r.cell, t_pool[p])
       IN
        /\ MASTER_POOL' = r.cell
        /\ IF ~r.inserted /\ r.cell.url # t_pool[p].url
           THEN TestReturns(p, "test_context", "Panic", t_alone)
           ELSE \E o \in PlainOutcomes :
                IF o = "ok"
                THEN /\ t_master' = [t_master EXCEPT ![p] = master_pool]
                     /\ t_conn' = [t_conn EXCEPT ![p] = master_pool.id]
                     /\ t_pc' = [t_pc EXCEPT ![p] = "tc_schema"]
                     /\ UNCHANGED <<t_ret, t_pool, t_db, t_left, t_alone>>
                ELSE TestReturns(p, "test_context", "Err", t_alone)
    /\ UNCHANGED <<decoderVars, serverVars, cleanerVars>>

\* lines 158-170: CREATE SCHEMA IF NOT EXISTS ...; CREATE TABLE IF NOT EXISTS ...
TcSchema(p) ==
    /\ t_pc[p] = "tc_schema"
    /\ \E o \in PlainOutcomes :
        IF o = "ok"
        THEN /\ schema' = TRUE
             /\ TestGoes(p, "tc_drop", t_alone)
        ELSE /\ TestReturns(p, "test_context", "Err", t_alone)
             /\ UNCHANGED schema
    /\ UNCHANGED <<decoderVars, databases, rows, MASTER_POOL, cleanerVars>>

\* ---------------------------------------------------------------- do_cleanup
\* line 208: DROP DATABASE IF EXISTS {db_name};
DropDatabaseIfExists(dbs, db_name) == dbs \ {db_name}

\* lines 211-218: DELETE FROM _sqlx_test.databases WHERE db_name = ?;
DeleteRowKept(table, db_name) == table
DeleteRow(table, db_name) == table \ {db_name}

\* lines 208-209: DROP DATABASE IF EXISTS {db_name};  (`?` on every error)
DoCleanupDrop(p, call, from, to) ==
    /\ t_pc[p] = from
    /\ \E o \in DropOutcomes :
        IF o = "ok"
        THEN /\ databases' = DropDatabaseIfExists(databases, t_db[p])
             /\ TestGoes(p, to, AloneAfter(p, {t_db[p]}))
        ELSE /\ TestReturns(p, call, "Err", t_alone)
             /\ UNCHANGED databases
    /\ UNCHANGED <<decoderVars, rows, schema, MASTER_POOL, cleanerVars>>

\* lines 211-222: DELETE FROM _sqlx_test.databases WHERE db_name = ?;  Ok(())
DoCleanupDelete(p, call, from, to) ==
    /\ t_pc[p] = from
    /\ \E o \in DeleteOutcomes :
        IF o = "ok"
        THEN /\ rows' = DeleteRow(rows, t_db[p])
             /\ c_alone' = CleanerAloneAfter(rows \ rows')
             /\ IF to = "idle"
                THEN TestReturns(p, call, "Ok", AloneAfter(p, {t_db[p]}))
                ELSE TestGoes(p, to, AloneAfter(p, {t_db[p]}))
        ELSE /\ TestReturns(p, call, "Err", t_alone)
             /\ UNCHANGED <<rows, c_alone>>
    /\ UNCHANGED <<decoderVars, databases, schema, MASTER_POOL, c_pc, delete_db_names,
                   c_k, deleted_db_names, c_ret, c_ok, c_removed, c_aborted, c_stmts>>

\* line 173: do_cleanup(&mut conn, &db_name).await?;
TcDrop(p) == DoCleanupDrop(p, "test_context", "tc_drop", "tc_delete")
TcDelete(p) == DoCleanupDelete(p, "test_context", "tc_delete", "tc_insert")

\* lines 175-184: INSERT INTO _sqlx_test.databases(db_name, test_path) ...
TcInsert(p) ==
    /\ t_pc[p] = "tc_insert"
    /\ \E o \in InsertOutcomes(t_db[p]) :
        IF o = "ok"
        THEN /\ rows' = rows \cup {t_db[p]}
             /\ TestGoes(p, "tc_create", AloneAfter(p, {t_db[p]}))
        ELSE /\ TestReturns(p, "test_context", "Err", t_alone)
             /\ UNCHANGED rows
    /\ UNCHANGED <<decoderVars, databases, schema, MASTER_POOL, cleanerVars>>

\* lines 186-204: CREATE DATABASE {db_name};  Ok(TestContext {...})
TcCreate(p) ==
    /\ t_pc[p] = "tc_create"
    /\ \E o \in CreateOutcomes(t_db[p]) :
        IF o = "ok"
        THEN /\ databases' = databases \cup {t_db[p]}
             /\ TestReturns(p, "test_context", "Ok", AloneAfter(p, {t_db[p]}))
        ELSE /\ TestReturns(p, "test_context", "Err", t_alone)
             /\ UNCHANGED databases
    /\ UNCHANGED <<decoderVars, rows, schema, MASTER_POOL, cleanerVars>>

\* ------------------------------------------------------------ cleanup_test
\* lines 27-31: MASTER_POOL.get().expect(...).acquire().await?
CtAcquire(p) ==
    /\ t_pc[p] = "idle"
    /\ IF MASTER_POOL = NoPool
       THEN TestReturns(p, "cleanup_test", "Panic", t_alone)
       ELSE \E o \in PlainOutcomes :
            IF o = "ok"
            THEN /\ \E n \in Dbs : t_db' = [t_db EXCEPT ![p] = n]
                 /\ t_conn' = [t_conn EXCEPT ![p] = MASTER_POOL.id]
                 /\ t_ret' = [t_ret EXCEPT ![p] = Returned("cleanup_test", "Running")]
                 /\ t_pc' = [t_pc EXCEPT ![p] = "ct_drop"]
                 /\ t_alone' = [t_alone EXCEPT ![p] = TRUE]
                 /\ t_left' = [t_left EXCEPT ![p] = FALSE]
                 /\ UNCHANGED <<t_pool, t_master>>
            ELSE TestReturns(p, "cleanup_test", "Err", t_alone)
    /\ UNCHANGED <<decoderVars, serverVars, MASTER_POOL, cleanerVars>>

\* line 33: do_cleanup(&mut conn, db_name).await
CtDrop(p) == DoCleanupDrop(p, "cleanup_test", "ct_drop", "ct_delete")
CtDelete(p) == DoCleanupDelete(p, "cleanup_test", "ct_delete", "idle")

\* -------------------------------------------------------- cleanup_test_dbs
Range(f) == {f[k] : k \in 1..Len(f)}

\* the rows of a SELECT without ORDER BY, in any order
Orders(set) ==
    {f \in [1..Cardinality(set) -> set] : \A a, b \in 1..Cardinality(set) : f[a] = f[b] => a = b}

NULL == 0

\* lines 63-65: Ok(_deleted) => deleted_db_names.push(db_name)
DropRecordedOnDatabaseError(o) == o \in {"ok", "Database"}
DropRecorded(o) == o = "ok"

\* lines 70-71: Err(e) => return Err(e), after Ok and Err(Error::Database)
DropAbortsNever(o) == FALSE
DropAborts(o) == o \notin {"ok", "Database"}

\* lines 75-97: WHERE db_name in (?, ..., ?), or in (NULL) for no name
InListSelected(selected, deleted) == Range(selected)
InList(selected, deleted) == IF deleted # <<>> THEN Range(deleted) ELSE {NULL}

CleanerReturns(tag, e, some, n) ==
    /\ c_ret' = CleanerResult(tag, e, some, n)
    /\ c_pc' = "idle"

\* lines 39-41: MySqlConnection::connect(&url).await?
DbsConnect ==
    /\ c_pc = "idle"
    /\ delete_db_names' = <<>>
    /\ deleted_db_names' = <<>>
    /\ c_k' = 1
    /\ c_ok' = {}
    /\ c_removed' = {}
    /\ c_alone' = TRUE
    /\ c_aborted' = FALSE
    /\ c_stmts' = 0
    /\ \E o \in PlainOutcomes :
        IF o = "ok"
        THEN c_ret' = CleanerResult("Running", "none", FALSE, 0) /\ c_pc' = "select"
        ELSE CleanerReturns("Err", o, FALSE, 0)
    /\ UNCHANGED <<decoderVars, serverVars, MASTER_POOL, testVars>>

\* lines 43-54: SELECT db_name FROM _sqlx_test.databases;  if is_empty Ok(None)
DbsSelect ==
    /\ c_pc = "select"
    /\ \E o \in SelectOutcomes :
        IF o = "ok"
        THEN \E names \in Orders(rows) :
             /\ delete_db_names' = names
             /\ IF names = <<>>
                THEN CleanerReturns("Ok", "none", FALSE, 0)
                ELSE c_pc' = "drop" /\ UNCHANGED c_ret
        ELSE /\ CleanerReturns("Err", o, FALSE, 0)
             /\ UNCHANGED delete_db_names
    /\ UNCHANGED <<decoderVars, serverVars, MASTER_POOL, testVars, c_k, deleted_db_names,
                   c_ok, c_removed, c_alone, c_aborted, c_stmts>>

\* lines 58-73: for db_name in delete_db_names { match DROP DATABASE IF EXISTS ... }
DbsDrop ==
    /\ c_pc = "drop"
    /\ LET db_name == delete_db_names[c_k] IN
       \E o \in DropOutcomes :
        /\ c_stmts' = c_stmts + 1
        /\ c_aborted' = (o = "Io")
        /\ IF o = "ok"
           THEN /\ databases' = DropDatabaseIfExists(databases, db_name)
                /\ c_ok' = c_ok \cup {db_name}
                /\ t_alone' = AloneAfter(0, {db_name})
           ELSE UNCHANGED <<databases, c_ok, t_alone>>
        /\ deleted_db_names' = IF DropRecorded(o)
                               THEN push(deleted_db_names, db_name)
                               ELSE deleted_db_names
        /\ IF DropAborts(o)
           THEN CleanerReturns("Err", o, FALSE, 0) /\ UNCHANGED c_k
           ELSE IF c_k < Len(delete_db_names)
                THEN c_k' = c_k + 1 /\ UNCHANGED <<c_pc, c_ret>>
                ELSE c_pc' = "delete" /\ UNCHANGED <<c_k, c_ret>>
    /\ UNCHANGED <<decoderVars, rows, schema, MASTER_POOL, t_pc, t_db, t_pool, t_master,
                   t_conn, t_ret, t_left, delete_db_names, c_removed, c_alone>>

\* lines 75-108: DELETE FROM _sqlx_test.databases WHERE db_name in (...);
\*                conn.close();  Ok(Some(deleted_db_names_count))
DbsDelete ==
    /\ c_pc = "delete"
    /\ \E o \in DeleteOutcomes :
        /\ c_stmts' = c_stmts + 1
        /\ IF o = "ok"
           THEN LET in == InList(delete_db_names, deleted_db_names) IN
                /\ rows' = rows \ in
                /\ c_removed' = rows \cap in
                /\ t_alone' = AloneAfter(0, rows \cap in)
                /\ CleanerReturns("Ok", "none", TRUE, Len(deleted_db_names))
           ELSE /\ CleanerReturns("Err", o, FALSE, 0)
                /\ UNCHANGED <<rows, c_removed, t_alone>>
    /\ UNCHANGED <<decoderVars, databases, schema, MASTER_POOL, t_pc, t_db, t_pool,
                   t_master, t_conn, t_ret, t_left, delete_db_names, c_k,
                   deleted_db_names, c_ok, c_alone, c_aborted>>

\* the calls of one test task
TestNext(p) ==
    \/ TcBuildPool(p)
    \/ TcTryInsert(p)
    \/ TcSchema(p)
    \/ TcDrop(p)
    \/ TcDelete(p)
    \/ TcInsert(p)
    \/ TcCreate(p)
    \/ CtAcquire(p)
    \/ CtDrop(p)
    \/ CtDelete(p)

\* the test tasks of one test binary, run concurrently
TestsNext == \E p \in Tests : TestNext(p)

TestsSpec == HarnessInit /\ [][TestsNext]_vars

\* a test task and a concurrent cleanup_test_dbs (another process: sqlx-cli,
\* or the cleanup a test binary starts)
CleanupNext ==
    \/ TestNext(1)
    \/ DbsConnect
    \/ DbsSelect
    \/ DbsDrop
    \/ DbsDelete

CleanupSpec == HarnessInit /\ [][CleanupNext]_vars

\* ------------------------------------------------- what the claims speak of
WireParams == stream[1].params
WireColumns == stream[1].columns

Kinds(s) == [j \in 1..Len(s) |-> s[j].kind]
Repeat(k, n) == [j \in 1..n |-> k]

\* prepare-ok, p + c column definitions, no EOF packet
StreamWithoutEof ==
    Kinds(stream) = <<"ok">> \o Repeat("coldef", WireParams + WireColumns)

\* prepare-ok, p column definitions, EOF, c column definitions, EOF
StreamWithEof ==
    Kinds(stream) = <<"ok">> \o Repeat("coldef", WireParams) \o <<"eof">>
                        \o Repeat("coldef", WireColumns) \o <<"eof">>

\* prepare-ok(1, 1), column definition, column definition, end of stream
StreamOneOneNoEof ==
    /\ StreamWithoutEof
    /\ WireParams = 1
    /\ WireColumns = 1

\* number of next_packet calls issued so far
FetchCount ==
    Cardinality({k \in 1..Len(log) : log[k].op \in {"next_packet", "next_terminator"}})

EofDecoded(group) ==
    \E k \in 1..Len(log) :
        log[k].op = "decode_eof" /\ log[k].group = group /\ log[k].tag = "Ok"

Columns(defs) == {defs.v[j].column : j \in 1..Len(defs.v)}

\* C1: under CLIENT_DEPRECATE_EOF a stream of the prepare-ok packet and
\* p + c column definitions, without EOF packets, decodes successfully,
\* exactly 1 + p + c packets are taken and the stream is left right after
\* the last column definition.
C1_DeprecateEofConsumesNoTerminator ==
    (/\ pc = "done"
     /\ contains(capabilities, CLIENT_DEPRECATE_EOF)
     /\ contains(ctx_capabilities, CLIENT_DEPRECATE_EOF)
     /\ StreamWithoutEof)
        => /\ ret.tag = "Ok"
           /\ pos = 1 + WireParams + WireColumns
           /\ pos = Len(stream)

\* C2: a prepare-ok with parameter_count = 0 and column_count = 0 decodes,
\* whatever the capabilities, to a response with param_defs and res_columns
\* both None, and only the prepare-ok packet is taken from the stream.
C2_ZeroCountsTakeOnePacket ==
    (/\ pc = "done"
     /\ stream[1].kind = "ok"
     /\ WireParams = 0
     /\ WireColumns = 0)
        => /\ ret = Ok([ok |-> [params |-> 0, columns |-> 0],
                        param_defs |-> None, res_columns |-> None])
           /\ pos = 1
           /\ FetchCount = 0

C2_Witness ==
    /\ pc = "done"
    /\ stream[1].kind = "ok"
    /\ WireParams = 0
    /\ WireColumns = 0
    /\ ~contains(capabilities, CLIENT_DEPRECATE_EOF)
    /\ ~contains(ctx_capabilities, CLIENT_DEPRECATE_EOF)
    /\ Len(stream) > 2
    /\ stream[2].kind = "eof"
    /\ ret.tag = "Ok"

\* C3: without CLIENT_DEPRECATE_EOF in the capabilities passed, one packet is
\* fetched after each non-empty group and decoded as an EOF packet: the
\* stream prepare-ok(p > 0, c > 0), p column definitions, EOF, c column
\* definitions, EOF decodes successfully with 1 + p + 1 + c + 1 packets
\* taken, both terminators decoded as EOF and absent from the result.
C3_TerminatorDecodedAsEofAfterEachGroup ==
    (/\ pc = "done"
     /\ ~contains(capabilities, CLIENT_DEPRECATE_EOF)
     /\ WireParams > 0
     /\ WireColumns > 0
     /\ StreamWithEof)
        => /\ ret.tag = "Ok"
           /\ pos = 1 + WireParams + 1 + WireColumns + 1
           /\ EofDecoded("param")
           /\ EofDecoded("res")
           /\ (1 + WireParams + 1) \notin Columns(ret.value.param_defs)
                                         \cup Columns(ret.value.res_columns)
           /\ Len(stream) \notin Columns(ret.value.param_defs)
                                    \cup Columns(ret.value.res_columns)

C5_TestWithoutEofPacketsReturnsOk ==
    (/\ pc = "done"
     /\ capabilities = {CLIENT_PROTOCOL_41}
     /\ StreamOneOneNoEof)
        => ret.tag = "Ok"

\* C6: on every successful decode param_defs is present iff ok.params > 0
\* and then holds exactly ok.params definitions, res_columns is present iff
\* ok.columns > 0 and then holds exactly ok.columns definitions.
C6_PresentIffCountPositive ==
    ret.tag = "Ok" =>
        LET v == ret.value IN
            /\ v.ok = [params |-> WireParams, columns |-> WireColumns]
            /\ v.param_defs.some <=> v.ok.params > 0
            /\ Len(v.param_defs.v) = v.ok.params
            /\ v.res_columns.some <=> v.ok.columns > 0
            /\ Len(v.res_columns.v) = v.ok.columns

C6_Witness ==
    /\ ret.tag = "Ok"
    /\ ret.value.ok.params = 2
    /\ ret.value.ok.columns = 0
    /\ ret.value.param_defs.some
    /\ ~ret.value.res_columns.some
    /\ Len(stream) > pos

\* C7: packets are assigned in wire arrival order: the i-th element of
\* param_defs is the i-th packet after the prepare-ok, the j-th element of
\* res_columns is the j-th packet after the parameter group and its
\* terminator, and every parameter definition was decoded before every
\* result definition.
C7_WireArrivalOrder ==
    ret.tag = "Ok" =>
        LET v == ret.value
            base == IF WireParams > 0 THEN 1 + WireParams + 1 ELSE 1
        IN  /\ \A j \in 1..Len(v.param_defs.v) : v.param_defs.v[j].column = 1 + j
            /\ \A j \in 1..Len(v.res_columns.v) : v.res_columns.v[j].column = base + j
            /\ \A a, b \in 1..Len(log) :
                (/\ log[a].op = "decode_coldef" /\ log[a].group = "param"
                 /\ log[b].op = "decode_coldef" /\ log[b].group = "res") => a < b

C7_Witness ==
    /\ ret.tag = "Ok"
    /\ Len(ret.value.param_defs.v) = 2
    /\ Len(ret.value.res_columns.v) = 2

\* C8: the first failing step ends the decode: it is the last step taken,
\* its error is the one returned, nothing is fetched or decoded after it and
\* no response comes with the error.
C8_FirstErrorAborts ==
    /\ \A k \in 1..Len(log) :
        log[k].tag = "Err" =>
            /\ k = Len(log)
            /\ pc = "done"
            /\ ret.tag = "Err"
            /\ ret.err = log[k].err
            /\ ret.value = <<>>
    /\ ret.tag = "Err" => (Len(log) > 0 /\ log[Len(log)].tag = "Err")
    /\ ret.tag = "Ok" => \A k \in 1..Len(log) : log[k].tag = "Ok"

C8_Witness ==
    /\ ret.tag = "Err"
    /\ ret.err = "Truncated"
    /\ log[Len(log)].op = "decode_coldef"
    /\ log[Len(log)].group = "res"
    /\ Len(vec) = 1
    /\ Len(stream) > pos

\* C9: a zero-count group takes no packet even when the other group is not
\* empty and the deprecate-EOF flag is absent: neither a column definition
\* nor a terminator is read for it, and a successful decode with counts
\* (0, n) or (n, 0), n > 0, takes exactly 1 + n + 1 packets.
C9_ZeroCountGroupTakesNoPacket ==
    (/\ stream[1].kind = "ok"
     /\ ~contains(capabilities, CLIENT_DEPRECATE_EOF))
        => /\ WireParams = 0 => \A k \in 1..Len(log) : log[k].group # "param"
           /\ WireColumns = 0 => \A k \in 1..Len(log) : log[k].group # "res"
           /\ (/\ ret.tag = "Ok"
               /\ (WireParams = 0) # (WireColumns = 0))
                    => /\ pos = 1 + (WireParams + WireColumns) + 1
                       /\ FetchCount = (WireParams + WireColumns) + 1

C9_Witness ==
    /\ ret.tag = "Ok"
    /\ ~contains(capabilities, CLIENT_DEPRECATE_EOF)
    /\ ~contains(ctx_capabilities, CLIENT_DEPRECATE_EOF)
    /\ WireParams = 0
    /\ WireColumns = 2
    /\ pos = 4

\* C10: the terminator gate is the same for both groups and depends only on
\* the capabilities passed to deserialize: when both counts are positive an
\* EOF packet is decoded after the parameter group iff one is decoded after
\* the result group, iff the capabilities passed lack CLIENT_DEPRECATE_EOF,
\* whatever the connection context holds.
C10_SameGateFromArgument ==
    (/\ ret.tag = "Ok"
     /\ WireParams > 0
     /\ WireColumns > 0)
        => /\ EofDecoded("param") <=> EofDecoded("res")
           /\ EofDecoded("param") <=> ~contains(capabilities, CLIENT_DEPRECATE_EOF)
           /\ EofDecoded("res") <=> ~contains(capabilities, CLIENT_DEPRECATE_EOF)

IsFetch(e) == e.op \in {"next_packet", "next_terminator"}
IsDecode(e) == e.op \in {"decode_ok", "decode_coldef", "decode_eof"}

\* every fetch comes right after the decode of the packet taken before it
FetchesFollowDecodes ==
    \A k \in 1..Len(log) :
        IsFetch(log[k]) => (k > 1 /\ IsDecode(log[k - 1]) /\ log[k - 1].tag = "Ok")

\* C11: deserialize terminates: it eventually returns Ok or Err, after at
\* most 1 + parameter_count + column_count + 2 packets (the prepare-ok
\* included), and every fetch is issued only after the packet fetched before
\* it has been decoded.
C11_TerminatesFetchingSequentially ==
    /\ <>(pc = "done" /\ ret.tag \in {"Ok", "Err"})
    /\ [](1 + FetchCount <= 1 + WireParams + WireColumns + 2)
    /\ []FetchesFollowDecodes

\* =========================================================== cleanup_test_dbs
\* the step in which the DELETE of cleanup_test_dbs is answered with success
DeleteAnswered == c_pc = "delete" /\ c_ret'.tag = "Ok"

\* the selected names whose DROP DATABASE did not succeed
NotDropped == Range(delete_db_names) \ c_ok

\* C12: the DELETE of cleanup_test_dbs removes from _sqlx_test.databases
\* exactly the names whose DROP DATABASE succeeded in this call; a name whose
\* drop was refused with a database error stays recorded and the call still
\* returns Ok; when no drop succeeded the DELETE removes no row
C12_DeleteRemovesExactlyDropped ==
    [][DeleteAnswered =>
        /\ rows' = rows \ c_ok
        /\ c_removed' = rows \cap c_ok
        /\ NotDropped \cap rows \subseteq rows'
        /\ c_ret'.some
        /\ (c_ok = {} => rows' = rows)]_vars

C12_Witness ==
    /\ c_pc = "idle"
    /\ c_ret.tag = "Ok"
    /\ c_ret.some
    /\ c_ok # {}
    /\ c_removed = c_ok
    /\ NotDropped # {}
    /\ NotDropped \subseteq rows
    /\ c_ok \cap rows = {}

\* a call of cleanup_test_dbs has returned Ok
CleanerCompleted == c_pc = "idle" /\ c_ret.tag = "Ok"

\* Ok(None): the SELECT returned no name, no DROP and no DELETE was issued;
\* Ok(Some(n)): n is the number of databases whose DROP succeeded, and
\* 0 <= n <= the number of recorded names
ReturnsCountOfDropped ==
    CleanerCompleted =>
        IF c_ret.some
        THEN /\ delete_db_names # <<>>
             /\ c_ret.n = Cardinality(c_ok)
             /\ 0 <= c_ret.n
             /\ c_ret.n <= Len(delete_db_names)
        ELSE /\ delete_db_names = <<>>
             /\ c_stmts = 0

\* the SELECT of an empty table ends the call with Ok(None)
EmptyTableReturnsNone ==
    [][(c_pc = "select" /\ c_pc' = "idle" /\ c_ret'.tag = "Ok") =>
        (rows = {} /\ ~c_ret'.some /\ c_stmts' = 0)]_vars

\* C13 as stated: Ok(None) without DROP or DELETE when the table is empty;
\* otherwise Ok(Some(n)), n the number of databases dropped, 0 <= n <= the
\* number of recorded names, and n equal to the number of rows the call deleted
C13_Original_CountEqualsRowsDeleted ==
    /\ ReturnsCountOfDropped
    /\ (CleanerCompleted /\ c_ret.some) => c_ret.n = Cardinality(c_removed)

\* C13 amended: as stated, but the call deletes at most n rows, and exactly n
\* when no concurrent call removed a selected row between the SELECT and the
\* DELETE
C13_CountOfDropped ==
    /\ []ReturnsCountOfDropped
    /\ EmptyTableReturnsNone
    /\ []((CleanerCompleted /\ c_ret.some) =>
            /\ Cardinality(c_removed) <= c_ret.n
            /\ c_alone => c_ret.n = Cardinality(c_removed))

C13_Witness ==
    /\ CleanerCompleted
    /\ c_ret.some
    /\ c_ret.n = 1
    /\ Len(delete_db_names) = 2
    /\ c_alone
    /\ Cardinality(c_removed) = 1

\* the step in which a DROP of cleanup_test_dbs fails with an error that is
\* not a database error
DropFailsOtherwise == c_pc = "drop" /\ c_aborted'

\* C14: a DROP of cleanup_test_dbs failing with an error that is not a
\* database error ends the call at once with that error: no later DROP and no
\* DELETE is issued, no row is deleted, and the databases dropped earlier in
\* the call keep their rows
C14_OtherErrorAbortsLoop ==
    /\ [](c_aborted =>
            /\ c_pc = "idle"
            /\ c_ret = CleanerResult("Err", "Io", FALSE, 0)
            /\ c_stmts = c_k
            /\ c_removed = {})
    /\ [][DropFailsOtherwise =>
            /\ rows' = rows
            /\ databases' = databases
            /\ c_ok' = c_ok
            /\ (c_alone => c_ok \subseteq rows')]_vars

C14_Witness ==
    /\ c_aborted
    /\ c_pc = "idle"
    /\ c_ok # {}
    /\ c_ok \subseteq rows
    /\ c_ok \cap databases = {}
    /\ c_k = Len(delete_db_names)

\* ============================================================= bookkeeping
\* C15: every test database that exists has a row in _sqlx_test.databases,
\* in every reachable state, under every interleaving of test_context,
\* cleanup_test and cleanup_test_dbs
C15_EveryDatabaseHasRow == databases \subseteq rows

\* ============================================================ test_context
\* task p is in test_context, about to INSERT / to CREATE DATABASE
AtInsert(p) == t_pc[p] = "tc_insert"
AtCreate(p) == t_pc[p] = "tc_create"

\* the last call of task p was test_context and it returned Ok
Provisioned(p) == t_pc[p] = "idle" /\ t_ret[p] = Returned("test_context", "Ok")

\* C16: test_context runs do_cleanup before the INSERT and the CREATE
\* DATABASE; with no concurrent call writing to the same db_name, neither the
\* INSERT nor the CREATE is refused by the server whatever an earlier run left
\* behind, and after a successful return the row for db_name is recorded and
\* the database exists
C16_CleansUpBeforeProvisioning ==
    \A p \in Tests :
        t_alone[p] =>
            /\ AtInsert(p) =>
                    /\ t_db[p] \notin rows
                    /\ t_db[p] \notin databases
                    /\ "Database" \notin InsertOutcomes(t_db[p])
            /\ AtCreate(p) =>
                    /\ t_db[p] \in rows
                    /\ "Database" \notin CreateOutcomes(t_db[p])
            /\ Provisioned(p) =>
                    /\ t_db[p] \in rows
                    /\ t_db[p] \in databases

C16_Witness ==
    \E p \in Tests :
        /\ Provisioned(p)
        /\ t_left[p]
        /\ t_alone[p]
        /\ t_db[p] \in rows \cap databases
        /\ \E q \in Tests \ {p} : t_pc[q] # "idle" /\ t_db[q] # t_db[p]

\* ============================================================= MASTER_POOL
\* task p is past MASTER_POOL.try_insert in test_context
PastTryInsert(p) == t_pc[p] \in {"tc_schema", "tc_drop", "tc_delete", "tc_insert", "tc_create"}

\* task p is in cleanup_test, past the acquire
InCleanupTest(p) == t_pc[p] \in {"ct_drop", "ct_delete"}

\* no cleanup_test got past MASTER_POOL.get().expect(..) so far
CleanupTestOnlyPanicked ==
    \A p \in Tests :
        /\ ~InCleanupTest(p)
        /\ t_ret[p].call = "cleanup_test" => t_ret[p].tag = "Panic"

\* every call in progress holds the installed pool and a connection of it,
\* never one of a pool that lost the race
ProceedsWithInstalled ==
    \A p \in Tests :
        /\ PastTryInsert(p) =>
                /\ MASTER_POOL # NoPool
                /\ t_master[p] = MASTER_POOL
                /\ t_conn[p] = MASTER_POOL.id
                /\ t_pool[p] # MASTER_POOL => t_conn[p] # t_pool[p].id
        /\ InCleanupTest(p) => (MASTER_POOL # NoPool /\ t_conn[p] = MASTER_POOL.id)
        /\ t_conn[p] # 0 => t_conn[p] = MASTER_POOL.id

\* C17: MASTER_POOL is set at most once and never replaced; every
\* test_context call that goes on does so with the installed pool, a losing
\* call's own pool is never used to acquire, and cleanup_test acquires only
\* from the installed pool and panics when none is installed
C17_MasterPoolSetOnce ==
    /\ [][MASTER_POOL # NoPool => MASTER_POOL' = MASTER_POOL]_vars
    /\ []ProceedsWithInstalled
    /\ [](MASTER_POOL = NoPool => CleanupTestOnlyPanicked)

C17_Witness ==
    \E p, q \in Tests :
        /\ p # q
        /\ PastTryInsert(p)
        /\ PastTryInsert(q)
        /\ t_pool[p] = MASTER_POOL
        /\ t_pool[q] # MASTER_POOL
        /\ t_master[q] = MASTER_POOL
        /\ t_conn[q] = t_pool[p].id
====
